---- MODULE Spec2Model ----
(***************************************************************************)
(* Menu trees of cursive-core (src/cursive-core/src/menu.rs).              *)
(*                                                                         *)
(* A Tree owns a Vec<Item>; an Item is a Leaf, a Subtree holding an        *)
(* Rc<Tree>, or a Delimiter.  The Rc cells live in `heap` (a handle is an  *)
(* Rc allocation, `rc` its strong count, rc = 0 a free cell).  `T` is a    *)
(* tree the host owns by value and edits; `T2` is a second tree the host   *)
(* obtains with T.clone().  `path` is the chain of indices through which   *)
(* the host currently holds a `&mut Tree` (<<>>: the borrow is T itself);  *)
(* every operation of Tree is applied to the tree at the end of `path`.    *)
(* Indices are 0-based as in the source; sequences are 1-based.            *)
(***************************************************************************)
EXTENDS Integers, Sequences, FiniteSets, TLC

VARIABLES T, T2, heap, path, last, fault, gT, gT2, calls, building

vars == <<T, T2, heap, path, last, fault, gT, gT2, calls, building>>

(* ------------------------------ bounds -------------------------------- *)
\* Children per tree, and Rc cells.
MaxLen == 3
MaxHandles == 4
\* Per specification: children per tree, Rc cells in use, and items alive in
\* all trees together.
EditNodes == 5
LookupNodes == 4
LookupHandles == 2
ForkLen == 2
ForkNodes == 4
ForkHandles == 2
CowLen == 2
CowNodes == 5

Handles == 1..MaxHandles
Labels == {"Edit", "|"}
Queries == {"Edit", "|", "Help"}
OneLabel == {"Edit"}
Callbacks == {"cb1"}
None == -1

(* ------------------------------ Item ---------------------------------- *)
\* Item::leaf: an enabled Leaf.
leaf(l, c) == [kind |-> "Leaf", label |-> l, cb |-> c, enabled |-> TRUE]

\* Item::Subtree { label, tree: Rc, enabled: true }, for an Rc already made.
subtree(l, h) == [kind |-> "Subtree", label |-> l, tree |-> h, enabled |-> TRUE]

Delimiter == [kind |-> "Delimiter"]

\* Item::label; "|" stands for the vertical bar glyph U+2502 of the source.
label(it) == IF it.kind = "Delimiter" THEN "|" ELSE it.label

is_enabled(it) == IF it.kind = "Delimiter" THEN FALSE ELSE it.enabled

is_delimiter(it) == it.kind = "Delimiter"

is_leaf(it) == it.kind = "Leaf"

is_subtree(it) == it.kind = "Subtree"

\* Mutant of disable: a Subtree is left enabled.
disable_leaf_only(it) ==
  IF it.kind = "Leaf" THEN [it EXCEPT !.enabled = FALSE] ELSE it

\* Item::disable: clears `enabled` of a Leaf or Subtree, leaves a Delimiter.
disable(it) ==
  IF it.kind \in {"Leaf", "Subtree"} THEN [it EXCEPT !.enabled = FALSE] ELSE it

\* Item::disabled: self.with(Self::disable).
disabled(it) == disable(it)

(* ------------------------------ Rc heap ------------------------------- *)
FreeCell == [children |-> <<>>, rc |-> 0]

Live(hp) == {h \in Handles : hp[h].rc > 0}

HasFree(hp) == \E h \in Handles : hp[h].rc = 0

\* Rc::new: the allocation; the lowest free cell stands for the fresh address.
Fresh(hp) == CHOOSE h \in Handles : hp[h].rc = 0 /\ \A g \in Handles : g < h => hp[g].rc > 0

RECURSIVE CloneSeq(_, _)
\* <Vec<Item> as Clone>::clone: each Subtree item clones its Rc (count + 1).
CloneSeq(hp, s) ==
  IF s = <<>> THEN hp
  ELSE LET it == Head(s)
           hp1 == IF it.kind = "Subtree" THEN [hp EXCEPT ![it.tree].rc = @ + 1] ELSE hp
       IN CloneSeq(hp1, Tail(s))

RECURSIVE DropSeq(_, _)
RECURSIVE DecRef(_, _)
\* Drop of an Rc<Tree>: count - 1, and the tree is dropped with its last owner.
DecRef(hp, h) ==
  IF hp[h].rc > 1 THEN [hp EXCEPT ![h].rc = @ - 1]
  ELSE DropSeq([hp EXCEPT ![h] = FreeCell], hp[h].children)

\* Drop of a Vec<Item>.
DropSeq(hp, s) ==
  IF s = <<>> THEN hp
  ELSE LET it == Head(s)
       IN DropSeq(IF it.kind = "Subtree" THEN DecRef(hp, it.tree) ELSE hp, Tail(s))

\* Mutants of MakeMut: never forking; forking without cloning the children's
\* Rcs; forking even for the sole owner.
MakeMutInPlace(hp, h) == [heap |-> hp, tree |-> h, forked |-> FALSE]

MakeMutNoChildRefs(hp, h) ==
  IF hp[h].rc = 1 THEN [heap |-> hp, tree |-> h, forked |-> FALSE]
  ELSE LET n == Fresh(hp)
       IN [heap |-> [hp EXCEPT ![n] = [children |-> hp[h].children, rc |-> 1],
                               ![h].rc = @ - 1],
           tree |-> n, forked |-> TRUE]

MakeMutAlways(hp, h) ==
  IF ~HasFree(hp) THEN [heap |-> hp, tree |-> h, forked |-> FALSE]
  ELSE LET n == Fresh(hp)
           cl == CloneSeq(hp, hp[h].children)
       IN [heap |-> IF hp[h].rc = 1
                    THEN DecRef([cl EXCEPT ![n] = [children |-> hp[h].children, rc |-> 1]], h)
                    ELSE [cl EXCEPT ![n] = [children |-> hp[h].children, rc |-> 1],
                                    ![h].rc = @ - 1],
           tree |-> n, forked |-> TRUE]

\* Rc::make_mut(tree): the sole owner keeps its cell; otherwise the Tree is
\* cloned (its items' Rcs are cloned, not their trees) into a fresh cell and
\* this owner's count on the old cell is given up.
MakeMut(hp, h) ==
  IF hp[h].rc = 1 THEN [heap |-> hp, tree |-> h, forked |-> FALSE]
  ELSE LET n == Fresh(hp)
           cl == CloneSeq(hp, hp[h].children)
       IN [heap |-> [cl EXCEPT ![n] = [children |-> hp[h].children, rc |-> 1],
                               ![h].rc = @ - 1],
           tree |-> n, forked |-> TRUE]

\* Item::as_subtree on child i of `ch`: None for a Leaf or Delimiter, else
\* make_mut on the item's Rc, which rebinds the item when it forks.
as_subtree(hp, ch, i) ==
  LET it == ch[i + 1]
  IN IF it.kind # "Subtree"
     THEN [some |-> FALSE, heap |-> hp, children |-> ch, tree |-> None, forked |-> FALSE]
     ELSE LET m == MakeMut(hp, it.tree)
          IN [some |-> TRUE, heap |-> m.heap,
              children |-> [ch EXCEPT ![i + 1].tree = m.tree],
              tree |-> m.tree, forked |-> m.forked]

(* ------------------------------ Vec ----------------------------------- *)
\* Mutants of VecInsert: clamping the index; always inserting in front.
VecInsertFront(ch, i, it) ==
  IF i > Len(ch) THEN [panic |-> TRUE, v |-> ch]
  ELSE [panic |-> FALSE, v |-> <<it>> \o ch]

VecInsertClamp(ch, i, it) ==
  LET j == IF i > Len(ch) THEN Len(ch) ELSE i
  IN [panic |-> FALSE, v |-> SubSeq(ch, 1, j) \o <<it>> \o SubSeq(ch, j + 1, Len(ch))]

\* Vec::insert of self.children.insert(i, item): panics when i > len.
VecInsert(ch, i, it) ==
  IF i > Len(ch) THEN [panic |-> TRUE, v |-> ch]
  ELSE [panic |-> FALSE, v |-> SubSeq(ch, 1, i) \o <<it>> \o SubSeq(ch, i + 1, Len(ch))]

\* Mutant of VecRemove: removing the child after the one asked for.
VecRemoveNext(ch, i) ==
  IF i >= Len(ch) THEN [panic |-> TRUE, v |-> ch]
  ELSE LET j == IF i + 1 < Len(ch) THEN i + 1 ELSE i
       IN [panic |-> FALSE, v |-> SubSeq(ch, 1, j) \o SubSeq(ch, j + 2, Len(ch))]

\* Vec::remove of self.children.remove(i): panics when i >= len.
VecRemove(ch, i) ==
  IF i >= Len(ch) THEN [panic |-> TRUE, v |-> ch]
  ELSE [panic |-> FALSE, v |-> SubSeq(ch, 1, i) \o SubSeq(ch, i + 2, Len(ch))]

(* ------------------------------ Tree queries -------------------------- *)
len(ch) == Len(ch)

is_empty(ch) == Len(ch) = 0

RECURSIVE scan(_, _, _)
\* The iterator scan behind position(..) and find(..): the first child at or
\* after k whose label() equals l.
scan(ch, l, k) ==
  IF k >= Len(ch) THEN None
  ELSE IF label(ch[k + 1]) = l THEN k ELSE scan(ch, l, k + 1)

\* Mutant of find_position: the last match instead of the first.
RECURSIVE scan_last(_, _, _)
scan_last(ch, l, k) ==
  IF k >= Len(ch) THEN None
  ELSE LET r == scan_last(ch, l, k + 1)
       IN IF r # None THEN r ELSE IF label(ch[k + 1]) = l THEN k ELSE None

find_position_last(ch, l) == scan_last(ch, l, 0)

\* Tree::find_position: iter().position(|child| child.label() == label).
find_position(ch, l) == scan(ch, l, 0)

\* Tree::find_item: iter_mut().find(...); the item is named by its index.
find_item(ch, l) == scan(ch, l, 0)

\* Mutant of get_mut: the bound taken as i <= len.
get_mut_incl(ch, i) ==
  IF i <= Len(ch) /\ Len(ch) > 0 THEN (IF i = Len(ch) THEN i - 1 ELSE i) ELSE None

\* Tree::get_mut: self.children.get_mut(i); the item is named by its index.
get_mut(ch, i) == IF i < Len(ch) THEN i ELSE None

\* Mutant of find_subtree_index: only the first child with the label is tried.
find_subtree_first_label(ch, l) ==
  LET k == scan(ch, l, 0)
  IN IF k = None \/ ch[k + 1].kind # "Subtree" THEN None ELSE k

RECURSIVE scan_subtree(_, _, _)
scan_subtree(ch, l, k) ==
  IF k >= Len(ch) THEN None
  ELSE IF label(ch[k + 1]) = l /\ ch[k + 1].kind = "Subtree" THEN k
       ELSE scan_subtree(ch, l, k + 1)

\* The child Tree::find_subtree stops at: filter(label matches) passes the
\* matching children in order to find_map(Item::as_subtree), which goes on
\* past those for which as_subtree is None (a Leaf, a Delimiter).
find_subtree_index(ch, l) == scan_subtree(ch, l, 0)

(* ------------------------------ the borrowed tree --------------------- *)
RECURSIVE HandleAt(_, _, _)
HandleAt(hp, ch, p) ==
  LET h == ch[Head(p) + 1].tree
  IN IF Len(p) = 1 THEN h ELSE HandleAt(hp, hp[h].children, Tail(p))

\* The Rc cell of the tree the host holds `&mut` (0: T itself).
CurH == IF path = <<>> THEN 0 ELSE HandleAt(heap, T, path)

\* self.children of that tree.
Cur == IF path = <<>> THEN T ELSE heap[CurH].children

\* Writing self.children (and the Rc heap) back.
Put(ch, hp) ==
  IF path = <<>> THEN T' = ch /\ heap' = hp
  ELSE T' = T /\ heap' = [hp EXCEPT ![CurH].children = ch]

RECURSIVE SumLen(_, _)
SumLen(hp, S) ==
  IF S = {} THEN 0
  ELSE LET g == CHOOSE g \in S : TRUE IN Len(hp[g].children) + SumLen(hp, S \ {g})

\* The items alive in all trees together.
Nodes == Len(T) + Len(T2) + SumLen(heap, Live(heap))

\* The size a specification keeps the trees within.
Within(l, h, n) ==
  /\ Len(T) <= l /\ Len(T2) <= l
  /\ \A g \in Handles : Len(heap[g].children) <= l
  /\ Cardinality(Live(heap)) <= h
  /\ Nodes <= n

(* ------------------------------ values -------------------------------- *)
\* A tree as a value: every Subtree's Rc replaced by the tree it holds.
RECURSIVE Val(_, _)
Val(hp, ch) ==
  [k \in 1..Len(ch) |->
     IF ch[k].kind = "Subtree"
     THEN [ch[k] EXCEPT !.tree = Val(hp, hp[ch[k].tree].children)]
     ELSE ch[k]]

RECURSIVE GAt(_, _)
GAt(g, p) == IF p = <<>> THEN g ELSE GAt(g[Head(p) + 1].tree, Tail(p))

RECURSIVE GPut(_, _, _)
GPut(g, p, v) ==
  IF p = <<>> THEN v
  ELSE [g EXCEPT ![Head(p) + 1].tree = GPut(g[Head(p) + 1].tree, Tail(p), v)]

\* gT is T as a plain value, edited by the same calls with no sharing at all;
\* gT2 is the value T had when T2 was cloned from it.
GCur == GAt(gT, path)

\* `last` is the last call: its arguments, its result (an index, a handle or
\* None), whether it forked, and for insert, remove and disable the children
\* the tree had when it was called (`pre`); `undoes` marks a remove(i) made
\* right after insert(i, _) on the same tree, `pre` then being the children
\* before that insert.  A specification that does not look at calls starts
\* with last.op = "off" and keeps it.
Rec(op, i, l, ret, f, pre, u) ==
  last' = IF last.op = "off" THEN last
          ELSE [op |-> op, i |-> i, label |-> l, ret |-> ret, forked |-> f,
                pre |-> pre, undoes |-> u]

Note(op, i, l, ret, f) == Rec(op, i, l, ret, f, <<>>, FALSE)

NotBuilding == building' = FALSE /\ calls' = <<>>

(* ------------------------------ Init ---------------------------------- *)
Init ==
  /\ T = <<>>
  /\ T2 = <<>>
  /\ heap = [h \in Handles |-> FreeCell]
  /\ path = <<>>
  /\ last = [op |-> "new", i |-> None, label |-> "", ret |-> None, forked |-> FALSE,
             pre |-> <<>>, undoes |-> FALSE]
  /\ fault = FALSE
  /\ gT = <<>>
  /\ gT2 = <<>>
  /\ calls = <<>>
  /\ building = TRUE

(* ------------------------------ items handed to insert ---------------- *)
\* The items a caller builds: Item::leaf, Item::Delimiter, Item::subtree of a
\* new tree, and a clone of a child of the same tree (which shares its Rc).
\* `val` is the item as a value.
Fresh_items(hp, L) ==
  {[item |-> leaf(l, c), heap |-> hp, val |-> leaf(l, c)] : l \in L, c \in Callbacks}
  \cup {[item |-> Delimiter, heap |-> hp, val |-> Delimiter]}
  \cup (IF HasFree(hp)
        THEN {[item |-> subtree(l, Fresh(hp)),
               heap |-> [hp EXCEPT ![Fresh(hp)] = [children |-> <<>>, rc |-> 1]],
               val |-> [kind |-> "Subtree", label |-> l, tree |-> <<>>, enabled |-> TRUE]]
              : l \in L}
        ELSE {})

Cloned_items(hp, ch, g) ==
  {[item |-> ch[k], heap |-> CloneSeq(hp, <<ch[k]>>), val |-> g[k]] : k \in 1..Len(ch)}

(* ------------------------------ Tree mutations ------------------------ *)
\* Tree::insert (and insert_leaf, insert_subtree, insert_delimiter, which
\* build the item and call it).
Insert(L, clones) ==
  /\ ~fault
  /\ \E i \in 0..(MaxLen + 1), x \in Fresh_items(heap, L) \cup (IF clones THEN Cloned_items(heap, Cur, GCur) ELSE {}) :
       LET r == VecInsert(Cur, i, x.item)
       IN IF r.panic
          THEN /\ fault' = TRUE
               /\ T' = T
               /\ heap' = DropSeq(x.heap, <<x.item>>)
               /\ gT' = gT
               /\ Rec("insert", i, "", None, FALSE, Cur, FALSE)
          ELSE /\ Len(Cur) < MaxLen
               /\ fault' = FALSE
               /\ Put(r.v, x.heap)
               /\ gT' = GPut(gT, path, VecInsert(GCur, i, x.val).v)
               /\ Rec("insert", i, "", None, FALSE, Cur, FALSE)
  /\ NotBuilding
  /\ UNCHANGED <<T2, gT2, path>>

\* What an add_* call leaves in the log of calls made on a tree since new().
Logged(c) == IF building THEN calls' = Append(calls, c) /\ building' = TRUE
             ELSE calls' = <<>> /\ building' = FALSE

\* Tree::add_leaf: insert_leaf(self.children.len(), label, cb).
AddLeaf(L) ==
  /\ ~fault
  /\ Len(Cur) < MaxLen
  /\ \E l \in L, c \in Callbacks :
       LET i == len(Cur)
       IN /\ Put(VecInsert(Cur, i, leaf(l, c)).v, heap)
          /\ gT' = GPut(gT, path, Append(GCur, leaf(l, c)))
          /\ Note("add_leaf", None, l, None, FALSE)
          /\ Logged([op |-> "add_leaf", label |-> l])
  /\ UNCHANGED <<T2, gT2, path, fault>>

\* Tree::add_subtree: insert_subtree(self.children.len(), label, tree), which
\* wraps the tree in Rc::new.
AddSubtree(L) ==
  /\ ~fault
  /\ Len(Cur) < MaxLen
  /\ HasFree(heap)
  /\ \E l \in L :
       LET i == len(Cur)
           n == Fresh(heap)
       IN /\ Put(VecInsert(Cur, i, subtree(l, n)).v,
                 [heap EXCEPT ![n] = [children |-> <<>>, rc |-> 1]])
          /\ gT' = GPut(gT, path, Append(GCur,
                     [kind |-> "Subtree", label |-> l, tree |-> <<>>, enabled |-> TRUE]))
          /\ Note("add_subtree", None, l, None, FALSE)
          /\ Logged([op |-> "add_subtree", label |-> l])
  /\ UNCHANGED <<T2, gT2, path, fault>>

\* Tree::add_delimiter: insert_delimiter(self.children.len()).
AddDelimiter ==
  /\ ~fault
  /\ Len(Cur) < MaxLen
  /\ LET i == len(Cur)
     IN Put(VecInsert(Cur, i, Delimiter).v, heap)
  /\ gT' = GPut(gT, path, Append(GCur, Delimiter))
  /\ Note("add_delimiter", None, "", None, FALSE)
  /\ Logged([op |-> "add_delimiter", label |-> "|"])
  /\ UNCHANGED <<T2, gT2, path, fault>>

\* Tree::remove.
Remove ==
  /\ ~fault
  /\ \E i \in 0..MaxLen :
       LET r == VecRemove(Cur, i)
       IN IF r.panic
          THEN fault' = TRUE /\ UNCHANGED <<T, heap, gT>>
               /\ Rec("remove", i, "", None, FALSE, Cur, FALSE)
          ELSE /\ fault' = FALSE
               /\ Put(r.v, DropSeq(heap, <<Cur[i + 1]>>))
               /\ gT' = GPut(gT, path, VecRemove(GCur, i).v)
               /\ IF last.op = "insert" /\ last.i = i
                  THEN Rec("remove", i, "", None, FALSE, last.pre, TRUE)
                  ELSE Rec("remove", i, "", None, FALSE, Cur, FALSE)
  /\ NotBuilding
  /\ UNCHANGED <<T2, gT2, path>>

\* Tree::clear.
Clear ==
  /\ ~fault
  /\ Put(<<>>, DropSeq(heap, Cur))
  /\ gT' = GPut(gT, path, <<>>)
  /\ Note("clear", None, "", None, FALSE)
  /\ NotBuilding
  /\ UNCHANGED <<T2, gT2, path, fault>>

\* get_mut(i).map(Item::disable).
Disable ==
  /\ ~fault
  /\ \E i \in 0..MaxLen :
       LET k == get_mut(Cur, i)
       IN IF k = None
          THEN UNCHANGED <<T, heap, gT>> /\ Rec("disable", i, "", None, FALSE, Cur, FALSE)
          ELSE /\ Put([Cur EXCEPT ![k + 1] = disable(Cur[k + 1])], heap)
               /\ gT' = GPut(gT, path, [GCur EXCEPT ![k + 1] = disable(GCur[k + 1])])
               /\ Rec("disable", i, "", k, FALSE, Cur, FALSE)
  /\ NotBuilding
  /\ UNCHANGED <<T2, gT2, path, fault>>

(* ------------------------------ Tree lookups -------------------------- *)
\* The model can fork only while an Rc cell is left to allocate.
CanFork(it) == (it.kind = "Subtree" /\ heap[it.tree].rc > 1) => HasFree(heap)

\* Tree::get_mut, and the read-only accessors of the item it returns
\* (label, is_enabled, is_leaf, is_subtree, is_delimiter), which take &self.
GetMut ==
  /\ ~fault
  /\ \E i \in 0..MaxLen : Note("get_mut", i, "", get_mut(Cur, i), FALSE)
  /\ NotBuilding
  /\ UNCHANGED <<T, T2, heap, path, fault, gT, gT2>>

\* Tree::get_subtree: get_mut(i).and_then(Item::as_subtree).  The tree it
\* returns becomes the borrowed tree.
GetSubtree ==
  /\ ~fault
  /\ \E i \in 0..MaxLen :
       LET k == get_mut(Cur, i)
       IN IF k = None
          THEN UNCHANGED <<T, heap, path>> /\ Note("get_subtree", i, "", None, FALSE)
          ELSE /\ CanFork(Cur[k + 1])
               /\ LET a == as_subtree(heap, Cur, k)
                  IN /\ Put(a.children, a.heap)
                     /\ path' = IF a.some THEN Append(path, k) ELSE path
                     /\ Note("get_subtree", i, "", a.tree, a.forked)
  /\ NotBuilding
  /\ UNCHANGED <<T2, fault, gT, gT2>>

\* Tree::find_subtree.
FindSubtree(Q) ==
  /\ ~fault
  /\ \E l \in Q :
       LET k == find_subtree_index(Cur, l)
       IN IF k = None
          THEN UNCHANGED <<T, heap, path>> /\ Note("find_subtree", None, l, None, FALSE)
          ELSE /\ CanFork(Cur[k + 1])
               /\ LET a == as_subtree(heap, Cur, k)
                  IN /\ Put(a.children, a.heap)
                     /\ path' = Append(path, k)
                     /\ Note("find_subtree", None, l, a.tree, a.forked)
  /\ NotBuilding
  /\ UNCHANGED <<T2, fault, gT, gT2>>

\* Tree::find_item.
FindItem(Q) ==
  /\ ~fault
  /\ \E l \in Q : Note("find_item", None, l, find_item(Cur, l), FALSE)
  /\ NotBuilding
  /\ UNCHANGED <<T, T2, heap, path, fault, gT, gT2>>

\* Tree::find_position.
FindPosition(Q) ==
  /\ ~fault
  /\ \E l \in Q : Note("find_position", None, l, find_position(Cur, l), FALSE)
  /\ NotBuilding
  /\ UNCHANGED <<T, T2, heap, path, fault, gT, gT2>>

\* Tree::len (in `ret`) and Tree::is_empty (in `i`, 1 for true).
Size ==
  /\ ~fault
  /\ Note("len", IF is_empty(Cur) THEN 1 ELSE 0, "", len(Cur), FALSE)
  /\ NotBuilding
  /\ UNCHANGED <<T, T2, heap, path, fault, gT, gT2>>

(* ------------------------------ the host ------------------------------ *)
\* T2 = T.clone() (#[derive(Clone)] on Tree): the items are cloned, then the
\* tree T2 held before is dropped.  T must not be mutably borrowed.
Clone ==
  /\ ~fault
  /\ path = <<>>
  /\ T2' = T
  /\ heap' = DropSeq(CloneSeq(heap, T), T2)
  /\ gT2' = gT
  /\ Note("clone", None, "", None, FALSE)
  /\ NotBuilding
  /\ UNCHANGED <<T, path, fault, gT>>

\* T2 is dropped (replaced by Tree::new()).
DropClone ==
  /\ ~fault
  /\ T2 # <<>>
  /\ T2' = <<>>
  /\ heap' = DropSeq(heap, T2)
  /\ gT2' = <<>>
  /\ Note("drop_clone", None, "", None, FALSE)
  /\ NotBuilding
  /\ UNCHANGED <<T, path, fault, gT>>

\* T = Tree::new(): Self::default(), no children.
New ==
  /\ ~fault
  /\ path = <<>>
  /\ T' = <<>>
  /\ heap' = DropSeq(heap, T)
  /\ gT' = <<>>
  /\ Note("new", None, "", None, FALSE)
  /\ building' = TRUE
  /\ calls' = <<>>
  /\ UNCHANGED <<T2, path, fault, gT2>>

\* The innermost `&mut Tree` goes out of scope.
Release ==
  /\ ~fault
  /\ path # <<>>
  /\ path' = SubSeq(path, 1, Len(path) - 1)
  /\ Note("release", None, "", None, FALSE)
  /\ NotBuilding
  /\ UNCHANGED <<T, T2, heap, fault, gT, gT2>>

\* Building and editing one tree: the structural operations.
EditBudget == Within(MaxLen, MaxHandles, EditNodes)

NextEdit ==
  \/ Insert(Labels, FALSE) /\ EditBudget'
  \/ AddLeaf(Labels) /\ EditBudget'
  \/ AddSubtree(Labels) /\ EditBudget'
  \/ AddDelimiter /\ EditBudget'
  \/ Remove
  \/ Clear
  \/ Disable
  \/ New

SpecEdit == Init /\ [][NextEdit]_vars

\* Lookups on trees that may share subtrees with a clone.
LookupBudget == Within(MaxLen, LookupHandles, LookupNodes)

NextLookup ==
  \/ path = <<>> /\ Insert(Labels, FALSE) /\ LookupBudget'
  \/ GetMut
  \/ GetSubtree /\ LookupBudget'
  \/ FindSubtree(Queries) /\ LookupBudget'
  \/ FindItem(Queries)
  \/ FindPosition(Queries)
  \/ Size
  \/ Clone /\ LookupBudget'
  \/ Release

SpecLookup == Init /\ [][NextLookup]_vars

\* Every kind of access to the items of trees that may share subtrees.
ForkBudget == Within(ForkLen, ForkHandles, ForkNodes)

NextFork ==
  \/ AddLeaf(OneLabel) /\ ForkBudget'
  \/ AddSubtree(OneLabel) /\ ForkBudget'
  \/ Disable
  \/ GetMut
  \/ GetSubtree /\ ForkBudget'
  \/ FindSubtree(OneLabel) /\ ForkBudget'
  \/ FindItem(OneLabel)
  \/ FindPosition(OneLabel)
  \/ Size
  \/ Clone /\ ForkBudget'
  \/ DropClone
  \/ Release

SpecFork == Init /\ [][NextFork]_vars

\* Editing the nested trees of a tree of submenus that has a clone; the
\* calls are not recorded.
InitCow ==
  /\ T = <<>>
  /\ T2 = <<>>
  /\ heap = [h \in Handles |-> FreeCell]
  /\ path = <<>>
  /\ last = [op |-> "off", i |-> None, label |-> "", ret |-> None, forked |-> FALSE,
             pre |-> <<>>, undoes |-> FALSE]
  /\ fault = FALSE
  /\ gT = <<>>
  /\ gT2 = <<>>
  /\ calls = <<>>
  /\ building = FALSE

CowBudget == Within(CowLen, MaxHandles, CowNodes)

NextCow ==
  \/ path # <<>> /\ Insert(OneLabel, TRUE) /\ CowBudget'
  \/ path # <<>> /\ AddLeaf(OneLabel) /\ CowBudget'
  \/ AddSubtree(OneLabel) /\ CowBudget'
  \/ path # <<>> /\ Remove
  \/ path # <<>> /\ Clear
  \/ path # <<>> /\ Disable
  \/ GetSubtree /\ CowBudget'
  \/ FindSubtree(OneLabel) /\ CowBudget'
  \/ Clone /\ CowBudget'
  \/ Release

SpecCow == InitCow /\ [][NextCow]_vars

(* ------------------------------ sanity -------------------------------- *)
RECURSIVE Refs(_, _)
\* How many Subtree items of s hold handle h.
Refs(s, h) ==
  IF s = <<>> THEN 0
  ELSE (IF Head(s).kind = "Subtree" /\ Head(s).tree = h THEN 1 ELSE 0) + Refs(Tail(s), h)

RECURSIVE SumRefs(_, _, _)
SumRefs(hp, S, h) ==
  IF S = {} THEN 0
  ELSE LET g == CHOOSE g \in S : TRUE
       IN Refs(hp[g].children, h) + SumRefs(hp, S \ {g}, h)

\* Every strong count is the number of Subtree items holding the cell.
RcExact ==
  \A h \in Handles : heap[h].rc = Refs(T, h) + Refs(T2, h) + SumRefs(heap, Live(heap), h)

(* ------------------------------ helpers of the claims ----------------- *)
Min(S) == CHOOSE k \in S : \A m \in S : k <= m

\* The 0-based indices of the children of ch whose label is l.
Matches(ch, l) == {k \in 0..(Len(ch) - 1) : label(ch[k + 1]) = l}

SubtreeMatches(ch, l) == {k \in Matches(ch, l) : ch[k + 1].kind = "Subtree"}

\* The children of the tree reached from T through the indices p.
TreeAt(p) == IF p = <<>> THEN T ELSE heap[HandleAt(heap, T, p)].children

Front(p) == SubSeq(p, 1, Len(p) - 1)

Shared(it) == it.kind = "Subtree" /\ heap[it.tree].rc > 1

RECURSIVE ReachSeq(_, _)
\* The Rc cells reachable from the items of s.
ReachSeq(hp, s) ==
  IF s = <<>> THEN {}
  ELSE (IF Head(s).kind = "Subtree"
        THEN {Head(s).tree} \cup ReachSeq(hp, hp[Head(s).tree].children)
        ELSE {}) \cup ReachSeq(hp, Tail(s))

\* In this step cell h was allocated as a copy of the shared cell o, whose
\* count went down by one: a fork.
ForkOf(h, o) ==
  /\ heap[h].rc = 0 /\ heap'[h].rc = 1
  /\ heap[o].rc > 1 /\ heap'[o].rc = heap[o].rc - 1
  /\ heap'[h].children = heap[o].children

PhysFork == \E h, o \in Handles : ForkOf(h, o)

(* ------------------------------ C1 ------------------------------------ *)
\* C1: copy-on-write isolation.  After T2 = T.clone(), whatever is done to the
\* nested trees of T through get_subtree / find_subtree (insert, add, remove,
\* clear, disable), T2 as a value is still the value T had when it was cloned
\* (so each nested tree seen through T2 is the original one), and T as a
\* value is exactly what the same calls make of a tree that shares nothing.
C1_CowIsolation == Val(heap, T2) = gT2 /\ Val(heap, T) = gT

\* T2 was cloned from T, the tree under T's child was then edited through
\* get_subtree, and the two differ there.
C1_Witness ==
  /\ Len(path) = 1 /\ Len(T2) > path[1]
  /\ T2[path[1] + 1].kind = "Subtree"
  /\ heap[T2[path[1] + 1].tree].rc = 1
  /\ T[path[1] + 1].tree # T2[path[1] + 1].tree
  /\ Len(Cur) > 0
  /\ heap[T2[path[1] + 1].tree].children = <<>>

(* ------------------------------ C2 ------------------------------------ *)
\* The call of this step asks for mutable access to a Subtree child whose
\* nested tree has more than one owner.
C2_Requested ==
  \/ /\ last'.op = "get_subtree"
     /\ last'.i < Len(Cur)
     /\ Shared(Cur[last'.i + 1])
  \/ /\ last'.op = "find_subtree"
     /\ SubtreeMatches(Cur, last'.label) # {}
     /\ Shared(Cur[Min(SubtreeMatches(Cur, last'.label)) + 1])

\* C2: a fork happens in a step exactly when the step is get_subtree or
\* find_subtree (as_subtree) reaching a Subtree whose tree has more than one
\* owner; the call then returns the new cell.  No other step forks: not an
\* access by the sole owner, not get_mut with the read-only accessors,
\* disable, find_item, find_position, len or is_empty.
C2_ForkExactlyWhenShared ==
  [][ /\ PhysFork <=> C2_Requested
      /\ last'.forked <=> C2_Requested
      /\ C2_Requested => \E h, o \in Handles : ForkOf(h, o) /\ last'.ret = h ]_vars

\* A find_subtree that forked a tree with children.
C2_Witness ==
  /\ last.op \in {"find_subtree", "get_subtree"}
  /\ last.forked
  /\ heap[last.ret].children # <<>>
  /\ path # <<>>
  /\ T2 # <<>>

(* ------------------------------ C3 ------------------------------------ *)
\* The item an add_* call makes.
C3_Made(it, c) ==
  /\ label(it) = c.label
  /\ c.op = "add_leaf" => it.kind = "Leaf" /\ it.enabled
  /\ c.op = "add_subtree" => it.kind = "Subtree" /\ it.enabled /\ heap[it.tree].children = <<>>
  /\ c.op = "add_delimiter" => it.kind = "Delimiter"

\* C3: while a tree made by Tree::new() has seen only add_leaf, add_subtree
\* and add_delimiter calls, len() is the number of calls and child k is the
\* item the k-th call made.
C3_AddOrder ==
  building =>
    /\ len(T) = Len(calls)
    /\ \A k \in 1..Len(calls) : C3_Made(T[k], calls[k])

\* Three calls of three kinds.
C3_Witness ==
  /\ building
  /\ Len(calls) = 3
  /\ calls[1].op = "add_subtree" /\ calls[2].op = "add_delimiter" /\ calls[3].op = "add_leaf"

(* ------------------------------ C4 ------------------------------------ *)
\* C4: remove(i) right after insert(i, item) on the same tree does not fault
\* and leaves the children as they were before the insert.
C4_InsertRemove ==
  (last.op = "remove" /\ last.undoes) => (~fault /\ Cur = last.pre)

\* An insert in the middle of two children, undone.
C4_Witness ==
  /\ last.op = "remove" /\ last.undoes
  /\ last.i = 1
  /\ Len(Cur) = 2
  /\ Cur[1] # Cur[2]

(* ------------------------------ C5 ------------------------------------ *)
\* C5: insert(i, _) faults exactly when i > len() and remove(i) exactly when
\* i >= len(); the index is not clamped, and the children are those the tree
\* had when the call was made.
C5_OutOfRangeFaults ==
  /\ last.op = "insert" => (fault <=> last.i > Len(last.pre))
  /\ last.op = "remove" /\ ~last.undoes => (fault <=> last.i >= Len(last.pre))
  /\ fault => last.op \in {"insert", "remove"} /\ Cur = last.pre

\* remove(len()) on a tree with children.
C5_Witness ==
  /\ fault
  /\ last.op = "remove"
  /\ last.i = Len(Cur)
  /\ Len(Cur) > 0

(* ------------------------------ C6 ------------------------------------ *)
\* C6: find_subtree(label) returns None exactly when no child is a Subtree
\* with that label; otherwise it returns the nested tree of the lowest such
\* child, passing over Leaf and Delimiter children with the same label.
C6_FindSubtree ==
  last.op = "find_subtree" =>
    IF last.ret = None
    THEN SubtreeMatches(Cur, last.label) = {}
    ELSE /\ path # <<>>
         /\ LET par == TreeAt(Front(path))
                k == path[Len(path)]
            IN /\ SubtreeMatches(par, last.label) # {}
               /\ k = Min(SubtreeMatches(par, last.label))
               /\ par[k + 1].tree = last.ret

\* find_subtree("Edit") went past a Leaf labelled "Edit".
C6_Witness ==
  /\ last.op = "find_subtree" /\ last.label = "Edit" /\ last.ret # None
  /\ path = <<1>>
  /\ T[1].kind = "Leaf" /\ label(T[1]) = "Edit"

(* ------------------------------ C7 ------------------------------------ *)
\* C7: find_position(label) and find_item(label) return the smallest index
\* whose child has that label (a Delimiter's label being the bar), and None
\* exactly when no child has it.
C7_FirstMatch ==
  last.op \in {"find_position", "find_item"} =>
    IF Matches(Cur, last.label) = {} THEN last.ret = None
    ELSE last.ret = Min(Matches(Cur, last.label))

\* The bar is found at a Delimiter that is not the first child, before
\* another child with the same label.
C7_Witness ==
  /\ last.op = "find_position" /\ last.label = "|"
  /\ last.ret = 1
  /\ Cur[2].kind = "Delimiter"
  /\ Cardinality(Matches(Cur, "|")) = 2

(* ------------------------------ C8 ------------------------------------ *)
RECURSIVE AllItems(_)
AllItems(S) ==
  IF S = {} THEN {}
  ELSE LET g == CHOOSE g \in S : TRUE
       IN {heap[g].children[k] : k \in 1..Len(heap[g].children)} \cup AllItems(S \ {g})

Items == {T[k] : k \in 1..Len(T)} \cup {T2[k] : k \in 1..Len(T2)} \cup AllItems(Live(heap))

\* C8: no Delimiter is enabled; disable() and disabled() leave a Delimiter as it is, and of
\* a Leaf or Subtree it clears `enabled` and changes nothing else; the other
\* children are untouched.
C8_Disable ==
  /\ \A it \in Items : is_delimiter(it) => ~is_enabled(it) /\ disabled(it) = it
  /\ \A it \in Items : ~is_delimiter(it) => disabled(it) = [it EXCEPT !.enabled = FALSE]
  /\ (last.op = "disable" /\ last.ret # None) =>
       /\ Len(Cur) = Len(last.pre)
       /\ \A j \in 1..Len(Cur) :
            LET old == last.pre[j]
                new == Cur[j]
            IN IF j # last.ret + 1 \/ old.kind = "Delimiter" THEN new = old
               ELSE /\ ~is_enabled(new)
                    /\ new = [old EXCEPT !.enabled = FALSE]

\* A Subtree that was enabled has been disabled, next to a Delimiter.
C8_Witness ==
  /\ last.op = "disable" /\ last.ret = 0
  /\ Len(Cur) = 2
  /\ last.pre[1].kind = "Subtree" /\ last.pre[1].enabled
  /\ Cur[2].kind = "Delimiter"

====
